---- MODULE Spec2Model ----
(***************************************************************************)
(* Source synchronization service of eventnative (package sources), with   *)
(* the driver factory (package drivers) it builds its registry from.       *)
(*                                                                         *)
(* The state is the Service struct (sources, closed, the ants pool), the   *)
(* locks granted by the monitor keeper, the position and locals of every   *)
(* goroutine calling Sync / GetStatus / GetLogs, the position of the       *)
(* resources.Watch goroutine running updateSources, and the tasks the pool *)
(* workers are executing.                                                  *)
(***************************************************************************)
EXTENDS Integers, Sequences, FiniteSets, Bags, TLC

\* ------------------------------------------------------------------ bounds
\* server.sync_tasks.pool.size: capacity handed to ants.NewPoolWithFunc
PoolSize == 2
\* goroutines (HTTP handlers) calling Sync / GetStatus / GetLogs concurrently
NumCallers == 2
\* payloads the watcher delivers to updateSources during one run
MaxReloads == 1
\* calls of Sync / GetStatus / GetLogs begun during one run
MaxCalls == 2
\* entries of the collections list handed to drivers.Create
MaxEntries == 2
\* calls of RegisterDriverConstructor during one run
MaxRegistrations == 2

\* calendar years the instants handed to Granularity are taken from
MaxYears == 2

Callers == 1..NumCallers

\* ------------------------------------------------------------- collaborators
\* ids the admin API may be called with; "ghost" is in no configuration
SourceIds == {"crm", "ads", "ghost"}
DestinationIds == {"warehouse", "lake"}
\* what destinationsService.GetStorageById / storageProxy.Get answer for an id
\* ("ready", "notready", "missing") in the deployments modelled: every
\* destination ready, "warehouse" still initializing, no destination configured
DestinationScenarios ==
    {[d \in DestinationIds |-> "ready"],
     [d \in DestinationIds |-> IF d = "warehouse" THEN "notready" ELSE "ready"],
     [d \in DestinationIds |-> "missing"]}
\* how one run of SyncTask.Sync ends
Outcomes == {"success", "error", "panic"}

\* ------------------------------------------------------------------ state
VARIABLES
    sources,    \* Service.sources: source name -> Unit
    closed,     \* Service.closed
    released,   \* the pool has been Release()d
    running,    \* the pool's count of busy workers (pool.Running())
    tasks,      \* the SyncTasks pool workers are executing (a bag)
    locks,      \* lock handles the monitor keeper has granted and not got back
    calls,      \* per calling goroutine: position and locals of its call
    reload,     \* the watcher goroutine: position in updateSources / initDrivers
    dest,       \* per destination id: what the destinations service answers
    started,    \* calls begun so far
    driverConstructors, \* package drivers: source type -> registered constructor
    factory,    \* the last call of drivers.Create: its arguments and what it returned
    mutex,      \* Service's embedded sync.RWMutex: the goroutines holding it
    monitor,    \* NewService's outcome and the goroutine of startMonitoring
    formatted   \* the last calls of Granularity.Format: arguments and strings

vars == <<sources, closed, released, running, tasks, locks, calls, reload, dest,
          started, driverConstructors, factory, mutex, monitor, formatted>>

\* ---------------------------------------------------------- drivers.Create
\* a raw entry of SourceConfig.Collections: a bare string, a map, or another
\* JSON value; name / type are "" where the entry does not carry them
StrEntry(n) == [kind |-> "string", name |-> n, type |-> ""]
MapEntry(n, t) == [kind |-> "map", name |-> n, type |-> t]
OtherEntry == [kind |-> "other", name |-> "", type |-> ""]

\* types with a constructor in driverConstructors
RegisteredTypes == {"firebase", "crm"}
\* the constructor functions a driver package may register
Constructors == {"v1", "v2"}

\* the registered constructor: rejects a collection type it does not know
ConstructorFails(type, collection) == collection.Type = "unsupported"

\* the driver a constructor returns; build names the configuration it was
\* built from, which tells apart the drivers of two versions of the registry
NewDriver(name, type, collection, build) ==
    [source |-> name, sourceType |-> type, collection |-> collection.Name,
     collectionType |-> collection.Type, build |-> build,
     constructor |-> driverConstructors[type]]

\* NormalizeEntry that leaves the type of a structured entry as configured
NormalizeEntryNoDefault(e) ==
    IF e.kind = "string"
    THEN [err |-> "", col |-> [Name |-> e.name, Type |-> e.name]]
    ELSE IF e.kind = "map"
    THEN IF e.name = ""
         THEN [err |-> "name not configured", col |-> [Name |-> "", Type |-> ""]]
         ELSE [err |-> "", col |-> [Name |-> e.name, Type |-> e.type]]
    ELSE [err |-> "failed to parse collections", col |-> [Name |-> "", Type |-> ""]]

\* the switch of Create's first loop, for one entry
NormalizeEntry(e) ==
    IF e.kind = "string"
    THEN [err |-> "", col |-> [Name |-> e.name, Type |-> e.name]]
    ELSE IF e.kind = "map"
    THEN IF e.name = ""
         THEN [err |-> "name not configured", col |-> [Name |-> "", Type |-> ""]]
         ELSE [err |-> "",
               col |-> [Name |-> e.name,
                        Type |-> IF e.type = "" THEN e.name ELSE e.type]]
    ELSE [err |-> "failed to parse collections", col |-> [Name |-> "", Type |-> ""]]

\* Create's first loop: stops at the first entry that cannot be normalized
RECURSIVE NormalizeAll(_)
NormalizeAll(entries) ==
    IF entries = <<>>
    THEN [err |-> "", cols |-> <<>>]
    ELSE LET h == NormalizeEntry(Head(entries))
         IN IF h.err # ""
            THEN [err |-> h.err, cols |-> <<>>]
            ELSE LET r == NormalizeAll(Tail(entries))
                 IN IF r.err # ""
                    THEN r
                    ELSE [err |-> "", cols |-> <<h.col>> \o r.cols]

NoDrivers == [c \in {} |-> 0]

\* Create's second loop with a continue in place of line 93's return: a
\* collection whose constructor fails is left out
RECURSIVE BuildAllSkipFailed(_, _, _, _, _, _)
BuildAllSkipFailed(name, type, cols, build, acc, invoked) ==
    IF cols = <<>>
    THEN [err |-> "", drivers |-> acc, calls |-> invoked]
    ELSE LET c == Head(cols)
         IN IF ConstructorFails(type, c)
            THEN BuildAllSkipFailed(name, type, Tail(cols), build, acc, invoked + 1)
            ELSE BuildAllSkipFailed(name, type, Tail(cols), build,
                          [k \in DOMAIN acc \cup {c.Name} |->
                              IF k = c.Name THEN NewDriver(name, type, c, build)
                              ELSE acc[k]],
                          invoked + 1)

\* Create's second loop: one constructor call per collection, in order; the
\* first failure returns no drivers. invoked counts the constructor invocations.
RECURSIVE BuildAll(_, _, _, _, _, _)
BuildAll(name, type, cols, build, acc, invoked) ==
    IF cols = <<>>
    THEN [err |-> "", drivers |-> acc, calls |-> invoked]
    ELSE LET c == Head(cols)
         IN IF ConstructorFails(type, c)
            THEN [err |-> "error creating driver", drivers |-> NoDrivers,
                  calls |-> invoked + 1]
            ELSE BuildAll(name, type, Tail(cols), build,
                          [k \in DOMAIN acc \cup {c.Name} |->
                              IF k = c.Name THEN NewDriver(name, type, c, build)
                              ELSE acc[k]],
                          invoked + 1)

\* drivers.Create(ctx, name, &sourceConfig)
Create(name, sourceConfig, build) ==
    LET type == IF sourceConfig.Type = "" THEN name ELSE sourceConfig.Type
        norm == NormalizeAll(sourceConfig.Collections)
        fail(e) == [err |-> e, type |-> type, drivers |-> NoDrivers, calls |-> 0]
    IN IF norm.err # "" THEN fail(norm.err)
       ELSE IF Len(norm.cols) = 0 THEN fail("collections are empty")
       ELSE IF Len(sourceConfig.Destinations) = 0 THEN fail("destinations are empty")
       ELSE IF type \notin DOMAIN driverConstructors THEN fail("Unknown source type")
       ELSE LET b == BuildAll(name, type, norm.cols, build, NoDrivers, 0)
            IN [err |-> b.err, type |-> type, drivers |-> b.drivers, calls |-> b.calls]

\* --------------------------------------------------------------- payloads
SourceConfig(type, destinations, collections) ==
    [Type |-> type, Destinations |-> destinations, Collections |-> collections]

\* two sources that both build
PayloadA ==
    [n \in {"crm", "ads"} |->
        IF n = "crm"
        THEN SourceConfig("firebase", <<"warehouse">>,
                          <<StrEntry("contacts"), MapEntry("deals", "")>>)
        ELSE SourceConfig("firebase", <<"lake">>, <<StrEntry("clicks")>>)]

\* "crm" has no destinations and fails to build; "ads" changes its collection
PayloadB ==
    [n \in {"crm", "ads"} |->
        IF n = "crm"
        THEN SourceConfig("", <<>>, <<StrEntry("contacts")>>)
        ELSE SourceConfig("firebase", <<"warehouse", "lake">>,
                          <<MapEntry("views", "events")>>)]

\* what the watcher may deliver; "malformed" is bytes that are no JSON object
Payloads == {"A", "B", "malformed"}
WellFormed == {"A", "B"}

\* parseFromBytes(b)
parseFromBytes(p) ==
    IF p = "A" THEN [err |-> FALSE, configs |-> PayloadA]
    ELSE IF p = "B" THEN [err |-> FALSE, configs |-> PayloadB]
    ELSE [err |-> TRUE, configs |-> [n \in {} |-> 0]]

\* &Unit{DriverPerCollection: ..., DestinationIds: ...}
Unit(driverPerCollection, destinationIds) ==
    [DriverPerCollection |-> driverPerCollection, DestinationIds |-> destinationIds]

\* s.sources[name] = unit
Put(registry, name, unit) ==
    [k \in DOMAIN registry \cup {name} |-> IF k = name THEN unit ELSE registry[k]]

\* initDrivers run to its end on `registry`, sources taken in any order (the
\* result does not depend on it: every name is written at most once)
RECURSIVE InitDriversAll(_, _, _, _)
InitDriversAll(registry, configs, names, build) ==
    IF names = {}
    THEN registry
    ELSE LET name == CHOOSE n \in names : TRUE
             made == Create(name, configs[name], build)
         IN InitDriversAll(
                IF made.err # "" THEN registry
                ELSE Put(registry, name,
                         Unit(made.drivers, configs[name].Destinations)),
                configs, names \ {name}, build)

EmptyRegistry == [n \in {} |-> 0]

Range(f) == {f[i] : i \in DOMAIN f}

NoUnit == Unit(NoDrivers, <<>>)
NoLock == [sourceId |-> "", collection |-> ""]
NoMap == [c \in {} |-> 0]

\* the tasks in the pool, and the pool with one task more or less
Tasks == BagToSet(tasks)
AddTask(pool, task) == pool (+) SetToBag({task})
RemoveTask(pool, task) == pool (-) SetToBag({task})
\* how many of the pool's tasks are in the set S
TaskCount(S) == BagCardinality([x \in S \cap Tasks |-> tasks[x]])

\* a goroutine that is in no call. resolved, lockFailed, submitted,
\* dispatchFailed and reads record what the call asked of its collaborators,
\* afterPanic that the call began after the driver of a task had panicked.
IdleCall ==
    [pc |-> "idle", op |-> "", sourceId |-> "", unit |-> NoUnit,
     destinationStorages |-> <<>>, todo |-> {}, collection |-> "",
     lock |-> NoLock, multiErr |-> <<>>, result |-> "", out |-> NoMap,
     resolved |-> {}, lockFailed |-> {}, submitted |-> {},
     dispatchFailed |-> {}, reads |-> {}, afterPanic |-> FALSE]

\* the watcher goroutine outside updateSources
\* before is the registry updateSources found, applied the payload of the last
\* initDrivers that ran to its end, name the source of the iteration of
\* initDrivers' loop that is between drivers.Create and s.Unlock()
IdleReload ==
    [pc |-> "idle", payload |-> "", pending |-> {}, count |-> 0,
     before |-> EmptyRegistry, applied |-> "", name |-> ""]

\* no call of drivers.Create made from outside initDrivers
\* registrations counts the calls of RegisterDriverConstructor, registered
\* records for every type the constructor of its latest registration
NoCreate ==
    [pc |-> "idle", registrations |-> 0, registered |-> [t \in {} |-> ""],
     name |-> "", config |-> <<>>, out |-> <<>>]

\* the RWMutex with no holder
MutexFree == [readers |-> {}, writer |-> FALSE]

\* before NewService is called: nothing built, no monitoring goroutine
NoMonitor == [pc |-> "none", starts |-> 0, built |-> "", config |-> ""]

\* after NewService has returned a service with configured sources: the
\* deferred startMonitoring (line 78) has started the loop
Monitoring == [pc |-> "check", starts |-> 1, built |-> "service", config |-> "static"]

\* ------------------------------------------------------------ Granularity
\* a time.Time in UTC, to the hour: the calendar date and the hour of the day
Time(year, month, day, hour) ==
    [year |-> year, month |-> month, day |-> day, hour |-> hour]

\* time.Time{}: January 1, year 1, 00:00 UTC
ZeroTime == Time(1, 1, 1, 0)

DaysIn(year, month) ==
    IF month = 2
    THEN IF (year % 4 = 0 /\ year % 100 # 0) \/ year % 400 = 0 THEN 29 ELSE 28
    ELSE IF month \in {4, 6, 9, 11} THEN 30 ELSE 31

\* time.Date(year, month, day, 0, ...) for a month or a day one past the
\* last: the date is normalized into the next year or month
Date(year, month, day) ==
    IF month > 12 THEN Time(year + 1, 1, day, 0)
    ELSE IF day > DaysIn(year, month)
    THEN IF month = 12 THEN Time(year + 1, 1, 1, 0) ELSE Time(year, month + 1, 1, 0)
    ELSE Time(year, month, day, 0)

\* t.Add(-d) for d the smallest duration told apart, t at midnight: the last
\* instant of the day before
BeforeMidnight(t) ==
    IF t.day > 1 THEN Time(t.year, t.month, t.day - 1, 23)
    ELSE IF t.month > 1
    THEN Time(t.year, t.month - 1, DaysIn(t.year, t.month - 1), 23)
    ELSE Time(t.year - 1, 12, 31, 23)

\* the Granularity constants, and a value that is none of them
Granularities == {"DAY", "MONTH", "YEAR", "FOREVER", "HOUR"}

\* Granularity.Lower
Lower(g, t) ==
    CASE g = "DAY" -> Time(t.year, t.month, t.day, 0)
      [] g = "MONTH" -> Time(t.year, t.month, 1, 0)
      [] g = "YEAR" -> Time(t.year, 1, 1, 0)
      [] OTHER -> ZeroTime

\* Granularity.Upper
Upper(g, t) ==
    CASE g = "DAY" -> BeforeMidnight(Date(t.year, t.month, t.day + 1))
      [] g = "MONTH" -> BeforeMidnight(Date(t.year, t.month + 1, 1))
      [] g = "YEAR" -> BeforeMidnight(Date(t.year + 1, 1, 1))
      [] OTHER -> ZeroTime

\* the decimal digits time.Format writes for a year and for a two-digit field
Digits4(n) == <<(n \div 1000) % 10, (n \div 100) % 10, (n \div 10) % 10, n % 10>>
Digits2(n) == <<(n \div 10) % 10, n % 10>>

\* time.Time.Format(layout), the layout cut into the chunks Format
\* recognises: "2006" stands for the year, "01" for the month, "02" for the
\* day of the month, anything else is copied
RECURSIVE TimeFormat(_, _)
TimeFormat(t, layout) ==
    IF layout = <<>> THEN <<>>
    ELSE LET chunk == Head(layout)
             text == CASE chunk = "2006" -> Digits4(t.year)
                       [] chunk = "01" -> Digits2(t.month)
                       [] chunk = "02" -> Digits2(t.day)
                       [] OTHER -> <<chunk>>
         IN text \o TimeFormat(t, Tail(layout))

\* Granularity.Format: the layouts of lines 52, 54 and 56; "" for a
\* granularity without one
Format(g, t) ==
    CASE g = "DAY" -> TimeFormat(t, <<"2006", "-", "01", "-", "01">>)
      [] g = "MONTH" -> TimeFormat(t, <<"2006", "-", "01">>)
      [] g = "YEAR" -> TimeFormat(t, <<"2006">>)
      [] OTHER -> <<>>

\* the instants Format, Lower and Upper are called with
Instants ==
    {Time(2019 + y, month, day, hour) :
        y \in 1..MaxYears, month \in {1, 2, 12}, day \in {1, 2, 28}, hour \in {0, 23}}

\* no call of Granularity.Format made; ft and fu are the strings returned for
\* the instants t and u
NoFormat ==
    [pc |-> "idle", g |-> "", t |-> ZeroTime, u |-> ZeroTime, ft |-> <<>>, fu |-> <<>>]


Init ==
    /\ driverConstructors = [t \in RegisteredTypes |-> "v1"]
    /\ factory = NoCreate
    /\ mutex = MutexFree
    /\ monitor = Monitoring
    /\ formatted = NoFormat
    /\ \E p \in WellFormed :
          sources = InitDriversAll(EmptyRegistry, parseFromBytes(p).configs,
                                   DOMAIN parseFromBytes(p).configs, p)
    /\ closed = FALSE
    /\ released = FALSE
    /\ running = 0
    /\ tasks = EmptyBag
    /\ locks = {}
    /\ calls = [t \in Callers |-> IdleCall]
    /\ reload = IdleReload
    /\ dest \in DestinationScenarios
    /\ started = 0

\* -------------------------------------------------- updateSources, initDrivers
\* updateSources that hands the empty map of a failed parse to a registry
\* built anew: a payload that does not parse empties the registry
updateSourcesReset(p) ==
    /\ reload.pc = "idle"
    /\ reload.count < MaxReloads
    /\ LET parsed == parseFromBytes(p)
       IN /\ reload' = IF parsed.err
                       THEN [reload EXCEPT !.count = @ + 1]
                       ELSE [pc |-> "init", payload |-> p,
                             pending |-> DOMAIN parsed.configs,
                             count |-> reload.count + 1,
                             before |-> sources, applied |-> reload.applied,
                             name |-> ""]
          /\ sources' = IF parsed.err THEN EmptyRegistry ELSE sources
    /\ UNCHANGED <<mutex, monitor, formatted, driverConstructors, factory, closed, released, running, tasks, locks, calls, dest, started>>

\* updateSources(payload) up to the call of initDrivers: a payload that does
\* not parse is logged and dropped
updateSources(p) ==
    /\ reload.pc = "idle"
    /\ reload.count < MaxReloads
    /\ LET parsed == parseFromBytes(p)
       IN reload' = IF parsed.err
                    THEN [reload EXCEPT !.count = @ + 1]
                    ELSE [pc |-> "init", payload |-> p,
                          pending |-> DOMAIN parsed.configs,
                          count |-> reload.count + 1,
                          before |-> sources, applied |-> reload.applied,
                             name |-> ""]
    /\ UNCHANGED <<mutex, monitor, formatted, driverConstructors, factory, sources, closed, released, running, tasks, locks, calls, dest, started>>

\* initDrivers that adds the destinations of the configuration to those of a
\* Unit already registered under the name
initDriversAppend(name) ==
    /\ reload.pc = "init"
    /\ name \in reload.pending
    /\ LET sourceConfig == parseFromBytes(reload.payload).configs[name]
           made == Create(name, sourceConfig, reload.payload)
           left == reload.pending \ {name}
           old == IF name \in DOMAIN sources THEN sources[name].DestinationIds
                  ELSE <<>>
       IN /\ sources' = IF made.err # "" THEN sources
                        ELSE Put(sources, name,
                                 Unit(made.drivers, old \o sourceConfig.Destinations))
          /\ reload' = IF left = {}
                       THEN [IdleReload EXCEPT !.count = reload.count,
                                               !.applied = reload.payload]
                       ELSE [reload EXCEPT !.pending = left]
    /\ UNCHANGED <<mutex, monitor, formatted, driverConstructors, factory, closed, released, running, tasks, locks, calls, dest, started>>

\* one iteration of initDrivers' range loop, for the source `name`
initDrivers(name) ==
    /\ reload.pc = "init"
    /\ name \in reload.pending
    /\ LET sourceConfig == parseFromBytes(reload.payload).configs[name]
           made == Create(name, sourceConfig, reload.payload)
           left == reload.pending \ {name}
       IN /\ sources' = IF made.err # "" THEN sources
                        ELSE Put(sources, name,
                                 Unit(made.drivers, sourceConfig.Destinations))
          /\ reload' = IF left = {}
                       THEN [IdleReload EXCEPT !.count = reload.count,
                                               !.applied = reload.payload]
                       ELSE [reload EXCEPT !.pending = left]
    /\ UNCHANGED <<mutex, monitor, formatted, driverConstructors, factory, closed, released, running, tasks, locks, calls, dest, started>>

\* a handler goroutine that can take a request: it is in no call, or the call
\* it made has returned
Free(t) == calls[t].pc \in {"idle", "done"}

\* ------------------------------------------------------------------- Sync
\* Sync, lines 166-172: the lookup under RLock and the not-found return
Sync(t, sourceId) ==
    /\ Free(t)
    /\ started < MaxCalls
    /\ calls' = [calls EXCEPT ![t] =
          IF sourceId \in DOMAIN sources
          THEN [IdleCall EXCEPT !.pc = "resolve", !.op = "Sync",
                                !.sourceId = sourceId, !.unit = sources[sourceId],
                                !.afterPanic = \E task \in Tasks : task.outcome = "panic"]
          ELSE [IdleCall EXCEPT !.pc = "done", !.op = "Sync",
                                !.sourceId = sourceId, !.result = "NotFound"]]
    /\ started' = started + 1
    /\ UNCHANGED <<mutex, monitor, formatted, driverConstructors, factory, sources, closed, released, running, tasks, locks, reload, dest>>

\* SyncResolve without the check of line 190: the collections are worked on
\* with whatever storages were found
SyncResolveNoCheck(t) ==
    /\ calls[t].pc = "resolve"
    /\ LET ids == calls[t].unit.DestinationIds
           storages == SelectSeq(ids, LAMBDA d : dest[d] = "ready")
       IN calls' = [calls EXCEPT ![t] =
             [@ EXCEPT !.pc = "loop", !.destinationStorages = storages,
                       !.todo = DOMAIN calls[t].unit.DriverPerCollection,
                       !.resolved = Range(ids)]]
    /\ UNCHANGED <<mutex, monitor, formatted, driverConstructors, factory, sources, closed, released, running, tasks, locks, reload, dest, started>>

\* SyncResolve without the readiness check of lines 181-185: the storage of
\* every known destination id is taken, initialized or not
SyncResolveNotReady(t) ==
    /\ calls[t].pc = "resolve"
    /\ LET ids == calls[t].unit.DestinationIds
           storages == SelectSeq(ids, LAMBDA d : dest[d] # "missing")
       IN calls' = [calls EXCEPT ![t] =
             IF Len(storages) = 0
             THEN [@ EXCEPT !.pc = "done", !.result = "EmptyDestinations",
                            !.resolved = Range(ids)]
             ELSE [@ EXCEPT !.pc = "loop", !.destinationStorages = storages,
                            !.todo = DOMAIN calls[t].unit.DriverPerCollection,
                            !.resolved = Range(ids)]]
    /\ UNCHANGED <<mutex, monitor, formatted, driverConstructors, factory, sources, closed, released, running, tasks, locks, reload, dest, started>>

\* SyncResolve that reads the source from the registry once more and goes on
\* with the collections of the Unit registered by then
SyncResolveCurrentUnit(t) ==
    /\ calls[t].pc = "resolve"
    /\ LET current == IF calls[t].sourceId \in DOMAIN sources
                      THEN sources[calls[t].sourceId] ELSE calls[t].unit
           ids == calls[t].unit.DestinationIds
           storages == SelectSeq(ids, LAMBDA d : dest[d] = "ready")
       IN calls' = [calls EXCEPT ![t] =
             IF Len(storages) = 0
             THEN [@ EXCEPT !.pc = "done", !.result = "EmptyDestinations",
                            !.resolved = Range(ids)]
             ELSE [@ EXCEPT !.pc = "loop", !.destinationStorages = storages,
                            !.todo = DOMAIN current.DriverPerCollection,
                            !.resolved = Range(ids)]]
    /\ UNCHANGED <<mutex, monitor, formatted, driverConstructors, factory, sources, closed, released, running, tasks, locks, reload, dest, started>>

\* Sync, lines 174-192: the destinations loop and the empty-destinations return
SyncResolve(t) ==
    /\ calls[t].pc = "resolve"
    /\ LET ids == calls[t].unit.DestinationIds
           storages == SelectSeq(ids, LAMBDA d : dest[d] = "ready")
       IN calls' = [calls EXCEPT ![t] =
             IF Len(storages) = 0
             THEN [@ EXCEPT !.pc = "done", !.result = "EmptyDestinations",
                            !.resolved = Range(ids)]
             ELSE [@ EXCEPT !.pc = "loop", !.destinationStorages = storages,
                            !.todo = DOMAIN calls[t].unit.DriverPerCollection,
                            !.resolved = Range(ids)]]
    /\ UNCHANGED <<mutex, monitor, formatted, driverConstructors, factory, sources, closed, released, running, tasks, locks, reload, dest, started>>

\* Sync, line 218: when the range loop has no collection left, the call
\* returns multiErr
SyncReturn(c) ==
    IF c.todo # {} THEN c
    ELSE [c EXCEPT !.pc = "done",
                   !.result = IF c.multiErr = <<>> THEN "nil" ELSE "multiErr"]

\* monitorKeeper.Lock grants the lock of a pair no one holds
LockFree(sourceId, collection) ==
    \A h \in locks : ~(h.sourceId = sourceId /\ h.collection = collection)

\* Sync, lines 194-197: the next collection of the range loop, lock granted
SyncLock(t, collection) ==
    /\ calls[t].pc = "loop"
    /\ collection \in calls[t].todo
    /\ LockFree(calls[t].sourceId, collection)
    /\ LET h == [sourceId |-> calls[t].sourceId, collection |-> collection]
       IN /\ locks' = locks \cup {h}
          /\ calls' = [calls EXCEPT ![t].pc = "invoke",
                                    ![t].collection = collection,
                                    ![t].todo = @ \ {collection},
                                    ![t].lock = h]
    /\ UNCHANGED <<mutex, monitor, formatted, driverConstructors, factory, sources, closed, released, running, tasks, reload, dest, started>>

\* SyncLockError with a return in place of line 200's continue: the first lock
\* error ends the loop
SyncLockErrorAbort(t, collection) ==
    /\ calls[t].pc = "loop"
    /\ collection \in calls[t].todo
    /\ calls' = [calls EXCEPT ![t] =
          SyncReturn([@ EXCEPT !.todo = {},
                               !.multiErr = Append(@, <<"lock", collection>>),
                               !.lockFailed = @ \cup {collection}])]
    /\ UNCHANGED <<mutex, monitor, formatted, driverConstructors, factory, sources, closed, released, running, tasks, locks, reload, dest, started>>

\* Sync, lines 197-201: monitorKeeper.Lock returns an error (held elsewhere,
\* timeout, connectivity), recorded in multiErr; the loop continues
SyncLockError(t, collection) ==
    /\ calls[t].pc = "loop"
    /\ collection \in calls[t].todo
    /\ calls' = [calls EXCEPT ![t] =
          SyncReturn([@ EXCEPT !.todo = @ \ {collection},
                               !.multiErr = Append(@, <<"lock", collection>>),
                               !.lockFailed = @ \cup {collection}])]
    /\ UNCHANGED <<mutex, monitor, formatted, driverConstructors, factory, sources, closed, released, running, tasks, locks, reload, dest, started>>

\* SyncTask with the identifier built without the collection
SyncTaskSourceIdentifier(c) ==
    [sourceId |-> c.sourceId, collection |-> c.collection,
     identifier |-> <<c.sourceId, "_", c.sourceId>>,
     driver |-> c.unit.DriverPerCollection[c.collection],
     destinations |-> c.destinationStorages, lock |-> c.lock,
     phase |-> "running", outcome |-> "", unlocks |-> 0]

\* the SyncTask literal of lines 203-211, as the worker receives it; phase,
\* outcome and unlocks are the state of the worker running it
SyncTask(c) ==
    [sourceId |-> c.sourceId, collection |-> c.collection,
     identifier |-> <<c.sourceId, "_", c.collection>>,
     driver |-> c.unit.DriverPerCollection[c.collection],
     destinations |-> c.destinationStorages, lock |-> c.lock,
     phase |-> "running", outcome |-> "", unlocks |-> 0]

\* pool.Invoke on a pool built with ants' default options (line 73): an error
\* on a released pool, a worker when one is free, otherwise the caller waits
Invoke ==
    IF released THEN "closed"
    ELSE IF running < PoolSize THEN "run"
    ELSE "wait"

\* the call goes on to the next collection after Invoke has returned nil
Dispatched(t) ==
    /\ tasks' = AddTask(tasks, SyncTask(calls[t]))
    /\ running' = running + 1
    /\ calls' = [calls EXCEPT ![t] =
          SyncReturn([@ EXCEPT !.pc = "loop", !.collection = "", !.lock = NoLock,
                               !.submitted = @ \cup {calls[t].collection}])]

\* lines 212-215: Invoke returned an error, recorded in multiErr
DispatchError(t) ==
    /\ calls' = [calls EXCEPT ![t] =
          SyncReturn([@ EXCEPT !.pc = "loop", !.collection = "", !.lock = NoLock,
                               !.multiErr = Append(@, <<"dispatch", calls[t].collection>>),
                               !.dispatchFailed = @ \cup {calls[t].collection}])]
    /\ UNCHANGED <<mutex, monitor, formatted, driverConstructors, factory, tasks, running>>

\* Sync, lines 203-215: pool.Invoke(SyncTask{...})
SyncInvoke(t) ==
    /\ calls[t].pc = "invoke"
    /\ CASE Invoke = "closed" -> DispatchError(t)
         [] Invoke = "run" -> Dispatched(t)
         [] Invoke = "wait" -> /\ calls' = [calls EXCEPT ![t].pc = "blocked"]
                               /\ UNCHANGED <<mutex, monitor, formatted, driverConstructors, factory, tasks, running>>
    /\ UNCHANGED <<mutex, monitor, formatted, driverConstructors, factory, sources, closed, released, locks, reload, dest, started>>

\* a caller waiting inside Invoke gets the worker another task has freed
SyncInvokeResume(t) ==
    /\ calls[t].pc = "blocked"
    /\ Invoke = "run"
    /\ Dispatched(t)
    /\ UNCHANGED <<mutex, monitor, formatted, driverConstructors, factory, sources, closed, released, locks, reload, dest, started>>

\* a caller waiting inside Invoke when the pool is released: ants versions
\* that wake the waiters make Invoke return an error; with the others this
\* step never happens and the caller waits for ever
SyncInvokeReleased(t) ==
    /\ calls[t].pc = "blocked"
    /\ Invoke = "closed"
    /\ DispatchError(t)
    /\ UNCHANGED <<mutex, monitor, formatted, driverConstructors, factory, sources, closed, released, locks, reload, dest, started>>

\* ------------------------------------------------------ GetStatus, GetLogs
\* Lookup without the check of lines 227 / 250: a miss goes on with the zero Unit
LookupNoCheck(t, op, sourceId) ==
    /\ Free(t)
    /\ started < MaxCalls
    /\ calls' = [calls EXCEPT ![t] =
          IF sourceId \in DOMAIN sources
          THEN [IdleCall EXCEPT !.pc = "read", !.op = op, !.sourceId = sourceId,
                                !.unit = sources[sourceId],
                                !.todo = DOMAIN sources[sourceId].DriverPerCollection]
          ELSE [IdleCall EXCEPT !.pc = "read", !.op = op, !.sourceId = sourceId]]
    /\ started' = started + 1
    /\ UNCHANGED <<mutex, monitor, formatted, driverConstructors, factory, sources, closed, released, running, tasks, locks, reload, dest>>

\* lines 223-231 / 246-254: the lookup under RLock and the not-found return
Lookup(t, op, sourceId) ==
    /\ Free(t)
    /\ started < MaxCalls
    /\ calls' = [calls EXCEPT ![t] =
          IF sourceId \in DOMAIN sources
          THEN [IdleCall EXCEPT !.pc = "read", !.op = op, !.sourceId = sourceId,
                                !.unit = sources[sourceId],
                                !.todo = DOMAIN sources[sourceId].DriverPerCollection]
          ELSE [IdleCall EXCEPT !.pc = "done", !.op = op, !.sourceId = sourceId,
                                !.result = "NotFound"]]
    /\ started' = started + 1
    /\ UNCHANGED <<mutex, monitor, formatted, driverConstructors, factory, sources, closed, released, running, tasks, locks, reload, dest>>

GetStatus(t, sourceId) == Lookup(t, "GetStatus", sourceId)

GetLogs(t, sourceId) == Lookup(t, "GetLogs", sourceId)

\* what Meta Storage holds for GetCollectionStatus / GetCollectionLog
MetaValue(op, sourceId, collection) == <<op, sourceId, collection>>

\* lines 232-239 / 255-262: one iteration, the read succeeds
ReadCollection(t, collection) ==
    /\ calls[t].pc = "read"
    /\ collection \in calls[t].todo
    /\ calls' = [calls EXCEPT
          ![t].todo = @ \ {collection},
          ![t].reads = @ \cup {collection},
          ![t].out = [c \in DOMAIN @ \cup {collection} |->
                         IF c = collection
                         THEN MetaValue(calls[t].op, calls[t].sourceId, collection)
                         ELSE @[c]]]
    /\ UNCHANGED <<mutex, monitor, formatted, driverConstructors, factory, sources, closed, released, running, tasks, locks, reload, dest, started>>

\* ReadCollectionError returning the map filled so far along with the error
ReadCollectionErrorPartial(t, collection) ==
    /\ calls[t].pc = "read"
    /\ collection \in calls[t].todo
    /\ calls' = [calls EXCEPT ![t].pc = "done", ![t].todo = {},
                              ![t].reads = @ \cup {collection},
                              ![t].result = "MetaStorageError"]
    /\ UNCHANGED <<mutex, monitor, formatted, driverConstructors, factory, sources, closed, released, running, tasks, locks, reload, dest, started>>

\* lines 234-236 / 257-259: the read fails, the call returns nil and the error
ReadCollectionError(t, collection) ==
    /\ calls[t].pc = "read"
    /\ collection \in calls[t].todo
    /\ calls' = [calls EXCEPT ![t].pc = "done", ![t].todo = {},
                              ![t].reads = @ \cup {collection},
                              ![t].out = NoMap,
                              ![t].result = "MetaStorageError"]
    /\ UNCHANGED <<mutex, monitor, formatted, driverConstructors, factory, sources, closed, released, running, tasks, locks, reload, dest, started>>

\* lines 241 / 264: every collection is read, the map is returned
ReadReturn(t) ==
    /\ calls[t].pc = "read"
    /\ calls[t].todo = {}
    /\ calls' = [calls EXCEPT ![t].pc = "done", ![t].result = "ok"]
    /\ UNCHANGED <<mutex, monitor, formatted, driverConstructors, factory, sources, closed, released, running, tasks, locks, reload, dest, started>>

\* ---------------------------------------------------------- syncCollection
\* how synctTask.Sync() ends for the worker that runs syncCollection: it
\* returns (a driver error is logged inside, lines 274-275 get no value back)
\* or it panics
Ended(outcome) == IF outcome = "panic" THEN "panic" ELSE "returned"

\* syncCollection with Unlock called before synctTask.Sync() instead of deferred
syncCollectionEarlyUnlock(task, outcome) ==
    /\ task \in Tasks
    /\ task.phase = "running"
    /\ \/ /\ task.unlocks = 0
          /\ locks' = locks \ {task.lock}
          /\ tasks' = AddTask(RemoveTask(tasks, task), [task EXCEPT !.unlocks = 1])
       \/ /\ task.unlocks = 1
          /\ locks' = locks
          /\ tasks' = AddTask(RemoveTask(tasks, task),
                               [task EXCEPT !.phase = "unlocked", !.outcome = Ended(outcome)])
    /\ UNCHANGED <<mutex, monitor, formatted, driverConstructors, factory, sources, closed, released, running, calls, reload, dest, started>>

\* syncCollection with Unlock called after synctTask.Sync() without defer: a
\* panic skips it
syncCollectionNoDefer(task, outcome) ==
    /\ task \in Tasks
    /\ task.phase = "running"
    /\ locks' = IF outcome = "panic" THEN locks ELSE locks \ {task.lock}
    /\ tasks' = AddTask(RemoveTask(tasks, task),
                         [task EXCEPT !.phase = "unlocked", !.outcome = Ended(outcome),
                                      !.unlocks = IF outcome = "panic" THEN @ ELSE @ + 1])
    /\ UNCHANGED <<mutex, monitor, formatted, driverConstructors, factory, sources, closed, released, running, calls, reload, dest, started>>

\* syncCollection that hands the end of synctTask.Sync() back to the callers
\* of Sync that submitted the task: a driver error or a panic replaces the
\* result of their call
syncCollectionDeliver(task, outcome) ==
    /\ task \in Tasks
    /\ task.phase = "running"
    /\ locks' = locks \ {task.lock}
    /\ tasks' = AddTask(RemoveTask(tasks, task),
                         [task EXCEPT !.phase = "unlocked", !.outcome = Ended(outcome),
                                      !.unlocks = @ + 1])
    /\ calls' = [t \in Callers |->
          IF /\ outcome # "success"
             /\ calls[t].op = "Sync"
             /\ calls[t].sourceId = task.sourceId
             /\ task.collection \in calls[t].submitted
          THEN [calls[t] EXCEPT !.result = outcome]
          ELSE calls[t]]
    /\ UNCHANGED <<mutex, monitor, formatted, driverConstructors, factory, sources, closed, released, running, reload, dest, started>>

\* lines 274-275: synctTask.Sync() ends, by returning or by panicking, and the
\* deferred monitorKeeper.Unlock runs in either case
syncCollection(task, outcome) ==
    /\ task \in Tasks
    /\ task.phase = "running"
    /\ locks' = locks \ {task.lock}
    /\ tasks' = AddTask(RemoveTask(tasks, task),
                         [task EXCEPT !.phase = "unlocked", !.outcome = Ended(outcome),
                                      !.unlocks = @ + 1])
    /\ UNCHANGED <<mutex, monitor, formatted, driverConstructors, factory, sources, closed, released, running, calls, reload, dest, started>>

\* WorkerDone of a pool whose worker dies of a panic without giving its slot back
WorkerDoneNoRecover(task) ==
    /\ task \in Tasks
    /\ task.phase = "unlocked"
    /\ tasks' = RemoveTask(tasks, task)
    /\ running' = IF task.outcome = "panic" THEN running ELSE running - 1
    /\ UNCHANGED <<mutex, monitor, formatted, driverConstructors, factory, sources, closed, released, locks, calls, reload, dest, started>>

\* the pool worker is done with the task: after a return it goes back to the
\* pool, after a panic its recover ends it; both give the slot back
WorkerDone(task) ==
    /\ task \in Tasks
    /\ task.phase = "unlocked"
    /\ tasks' = RemoveTask(tasks, task)
    /\ running' = running - 1
    /\ UNCHANGED <<mutex, monitor, formatted, driverConstructors, factory, sources, closed, released, locks, calls, reload, dest, started>>

\* ------------------------------------------------------------------ Close
\* Close that marks the service closed and leaves the pool as it is
CloseNoRelease ==
    /\ closed' = TRUE
    /\ UNCHANGED <<mutex, monitor, formatted, driverConstructors, factory, sources, released, running, tasks, locks, calls, reload, dest, started>>

Close ==
    /\ closed' = TRUE
    /\ released' = TRUE
    /\ UNCHANGED <<mutex, monitor, formatted, driverConstructors, factory, sources, running, tasks, locks, calls, reload, dest, started>>

\* ------------------------------------------- package drivers on its own
\* the service's variables while only package drivers is exercised
serviceVars == <<sources, closed, released, running, tasks, locks, calls, reload,
                 dest, started, mutex, monitor>>

\* RegisterDriverConstructor with a guard that keeps a constructor already
\* registered for the type
RegisterDriverConstructorKeepFirst(driverType, createDriverFunc) ==
    /\ factory.registrations < MaxRegistrations
    /\ driverConstructors' =
          IF driverType \in DOMAIN driverConstructors THEN driverConstructors
          ELSE Put(driverConstructors, driverType, createDriverFunc)
    /\ factory' = [factory EXCEPT
                      !.registrations = @ + 1,
                      !.registered = Put(@, driverType, createDriverFunc)]
    /\ UNCHANGED <<serviceVars, formatted>>

\* RegisterDriverConstructor(driverType, createDriverFunc), line 41
RegisterDriverConstructor(driverType, createDriverFunc) ==
    /\ factory.registrations < MaxRegistrations
    /\ driverConstructors' = Put(driverConstructors, driverType, createDriverFunc)
    /\ factory' = [factory EXCEPT
                      !.registrations = @ + 1,
                      !.registered = Put(@, driverType, createDriverFunc)]
    /\ UNCHANGED <<serviceVars, formatted>>

\* the raw collection entries a configuration may hold: bare names and
\* structured objects, with and without a name or a type, and a JSON value
\* that is neither
Entries ==
    {StrEntry("contacts"), StrEntry(""), MapEntry("deals", ""),
     MapEntry("contacts", "events"), MapEntry("deals", "unsupported"),
     MapEntry("", "events"), OtherEntry}

SeqsUpTo(S, n) == UNION {[1..k -> S] : k \in 0..n}

\* the configurations drivers.Create is called with
SourceConfigs ==
    {SourceConfig(type, destinations, collections) :
        type \in {"", "firebase", "mysql"},
        destinations \in {<<>>, <<"warehouse">>},
        collections \in SeqsUpTo(Entries, MaxEntries)}

\* a call drivers.Create(ctx, name, &sourceConfig) and what it returns
CallCreate(name, sourceConfig) ==
    /\ factory.pc = "idle"
    /\ factory' = [factory EXCEPT !.pc = "returned", !.name = name,
                                  !.config = sourceConfig,
                                  !.out = Create(name, sourceConfig, "")]
    /\ UNCHANGED driverConstructors
    /\ UNCHANGED <<serviceVars, formatted>>

\* -------------------------------------------------------- specifications
\* ----------------------------------------- NewService and startMonitoring
\* how the sources are configured when main calls NewService (main.go:247):
\* not at all, with a dummy Meta Storage, with a pool size ants refuses, as a
\* structured map (one that does not unmarshal included), as an inline JSON
\* string, or as a string of no known format
ConfigKinds ==
    {"none", "dummyMeta", "poolError", "static", "unmarshalError", "json",
     "unknownFormat"}

\* the kinds with which NewService returns at lines 66, 70, 75: before the
\* defer of line 78
BeforeDefer == {"none", "dummyMeta", "poolError"}

\* the error NewService returns, "" for none
NewServiceError(kind, p) ==
    IF kind \in {"dummyMeta", "poolError", "unmarshalError", "unknownFormat"}
    THEN kind
    ELSE IF kind = "json" /\ parseFromBytes(p).err THEN "parse"
    ELSE ""

\* safego.RunWithRestart(f): f runs in a goroutine of its own, and is run
\* again only after a panic
RunWithRestart(m) == [m EXCEPT !.pc = "check", !.starts = @ + 1]

\* NewService (lines 52-96) as main calls it once (main.go:247-250): the
\* deferred startMonitoring runs on every return after line 78, and an error
\* makes main end the process (logging.Fatal). p is the configuration text of
\* the kinds that carry one; the other kinds do not read it
NewService(kind, p) ==
    /\ monitor.built = ""
    /\ kind \in {"static", "json"} \/ p = "A"
    /\ kind = "static" => p \in WellFormed
    /\ LET err == NewServiceError(kind, p)
           m == [monitor EXCEPT !.config = kind,
                                !.built = IF err = "" THEN "service" ELSE "error"]
           deferred == IF kind \in BeforeDefer THEN m ELSE RunWithRestart(m)
       IN /\ monitor' = IF err = "" THEN deferred
                        ELSE [deferred EXCEPT !.pc = "exited"]
          /\ sources' = IF kind \in {"static", "json"} /\ err = ""
                        THEN InitDriversAll(EmptyRegistry, parseFromBytes(p).configs,
                                            DOMAIN parseFromBytes(p).configs, p)
                        ELSE sources
    /\ UNCHANGED <<mutex, formatted, driverConstructors, factory, closed, released, running, tasks, locks, calls, reload, dest, started>>

\* MonitorCheck of a loop without the break of lines 153-155
MonitorCheckNoBreak(observed) ==
    /\ monitor.pc = "check"
    /\ observed \in {closed, FALSE}
    /\ monitor' = [monitor EXCEPT !.pc = "sample"]
    /\ UNCHANGED <<mutex, formatted, driverConstructors, factory, sources, closed, released, running, tasks, locks, calls, reload, dest, started>>

\* startMonitoring, lines 153-155: the loop reads s.closed and breaks when it
\* is set. The read is not synchronised with the write of Close (line 279):
\* it yields the value written or still the one before
MonitorCheck(observed) ==
    /\ monitor.pc = "check"
    /\ observed \in {closed, FALSE}
    /\ monitor' = [monitor EXCEPT !.pc = IF observed THEN "done" ELSE "sample"]
    /\ UNCHANGED <<mutex, formatted, driverConstructors, factory, sources, closed, released, running, tasks, locks, calls, reload, dest, started>>

\* lines 157-158: pool.Running() and pool.Free() go to the metrics
MonitorSample ==
    /\ monitor.pc = "sample"
    /\ monitor' = [monitor EXCEPT !.pc = "sleep"]
    /\ UNCHANGED <<mutex, formatted, driverConstructors, factory, sources, closed, released, running, tasks, locks, calls, reload, dest, started>>

\* line 159: time.Sleep(20 * time.Second) is over
MonitorWake ==
    /\ monitor.pc = "sleep"
    /\ monitor' = [monitor EXCEPT !.pc = "check"]
    /\ UNCHANGED <<mutex, formatted, driverConstructors, factory, sources, closed, released, running, tasks, locks, calls, reload, dest, started>>

\* -------------------------------------------------- Granularity.Format
\* g.Format(t) and g.Format(u) for the granularity and the instants chosen
CallFormat ==
    /\ formatted.pc = "idle"
    /\ formatted' = [formatted EXCEPT !.pc = "returned",
                                      !.ft = Format(formatted.g, formatted.t),
                                      !.fu = Format(formatted.g, formatted.u)]
    /\ UNCHANGED <<serviceVars, driverConstructors, factory>>

\* ------------------------------------- the registry mutex, step by step
\* Sync line 166, GetStatus line 223, GetLogs line 246: s.RLock(), granted
\* while no goroutine holds the mutex for writing
RLock(t, op, sourceId) ==
    /\ Free(t)
    /\ started < MaxCalls
    /\ ~mutex.writer
    /\ mutex' = [mutex EXCEPT !.readers = @ \cup {t}]
    /\ calls' = [calls EXCEPT ![t] =
          [IdleCall EXCEPT !.pc = "rlocked", !.op = op, !.sourceId = sourceId]]
    /\ started' = started + 1
    /\ UNCHANGED <<monitor, formatted, driverConstructors, factory, sources, closed, released, running, tasks, locks, reload, dest>>

\* the call after its lookup: on to the destinations (Sync) or to the Meta
\* Storage reads (GetStatus, GetLogs), or the not-found return
LookedUp(c) ==
    IF c.sourceId \in DOMAIN sources
    THEN [c EXCEPT !.pc = IF c.op = "Sync" THEN "resolve" ELSE "read",
                   !.unit = sources[c.sourceId],
                   !.todo = IF c.op = "Sync" THEN {}
                            ELSE DOMAIN sources[c.sourceId].DriverPerCollection,
                   !.afterPanic = /\ c.op = "Sync"
                                  /\ \E task \in Tasks : task.outcome = "panic"]
    ELSE [c EXCEPT !.pc = "done", !.result = "NotFound"]

\* LookupRUnlock with the RUnlock deferred to the return of the call
LookupDeferRUnlock(t) ==
    /\ calls[t].pc = "rlocked"
    /\ calls' = [calls EXCEPT ![t] = LookedUp(calls[t])]
    /\ mutex' = IF calls'[t].pc = "done"
                THEN [mutex EXCEPT !.readers = @ \ {t}]
                ELSE mutex
    /\ UNCHANGED <<monitor, formatted, driverConstructors, factory, sources, closed, released, running, tasks, locks, reload, dest, started>>

\* lines 167-172, 224-229, 247-252: the read of s.sources[sourceId],
\* s.RUnlock(), and the not-found return
LookupRUnlock(t) ==
    /\ calls[t].pc = "rlocked"
    /\ calls' = [calls EXCEPT ![t] = LookedUp(calls[t])]
    /\ mutex' = [mutex EXCEPT !.readers = @ \ {t}]
    /\ UNCHANGED <<monitor, formatted, driverConstructors, factory, sources, closed, released, running, tasks, locks, reload, dest, started>>

\* the watcher after the iteration for the last pending source
NextSource(left) ==
    IF left = {}
    THEN [IdleReload EXCEPT !.count = reload.count, !.applied = reload.payload]
    ELSE [reload EXCEPT !.pc = "init", !.pending = left, !.name = ""]

\* initDrivers, lines 133-137: drivers.Create for the next source of the
\* range loop; an error is logged and the loop continues
initDriversCreate(name) ==
    /\ reload.pc = "init"
    /\ name \in reload.pending
    /\ LET sourceConfig == parseFromBytes(reload.payload).configs[name]
           made == Create(name, sourceConfig, reload.payload)
       IN reload' = IF made.err # "" THEN NextSource(reload.pending \ {name})
                     ELSE [reload EXCEPT !.pc = "created", !.name = name]
    /\ UNCHANGED <<mutex, monitor, formatted, driverConstructors, factory, sources, closed, released, running, tasks, locks, calls, dest, started>>

\* initDrivers, line 138: s.Lock(), granted when no goroutine holds the mutex
initDriversLock ==
    /\ reload.pc = "created"
    /\ mutex = MutexFree
    /\ mutex' = [mutex EXCEPT !.writer = TRUE]
    /\ reload' = [reload EXCEPT !.pc = "locked"]
    /\ UNCHANGED <<monitor, formatted, driverConstructors, factory, sources, closed, released, running, tasks, locks, calls, dest, started>>

\* initDrivers, lines 139-143: the Unit is stored under the name, s.Unlock()
initDriversStore ==
    /\ reload.pc = "locked"
    /\ LET name == reload.name
           sourceConfig == parseFromBytes(reload.payload).configs[name]
           made == Create(name, sourceConfig, reload.payload)
       IN sources' = Put(sources, name,
                         Unit(made.drivers, sourceConfig.Destinations))
    /\ mutex' = [mutex EXCEPT !.writer = FALSE]
    /\ reload' = NextSource(reload.pending \ {reload.name})
    /\ UNCHANGED <<monitor, formatted, driverConstructors, factory, closed, released, running, tasks, locks, calls, dest, started>>

CollectionNames == {"contacts", "deals", "clicks", "views"}

\* a running deployment with static configuration: no watcher, the registry
\* is the one NewService built, Close has not been called; every handler
\* goroutine may call Sync
Next ==
    \/ \E t \in Callers, id \in SourceIds : Sync(t, id)
    \/ \E t \in Callers : SyncResolve(t)
    \/ \E t \in Callers, c \in CollectionNames : SyncLock(t, c)
    \/ \E t \in Callers, c \in CollectionNames : SyncLockError(t, c)
    \/ \E t \in Callers : SyncInvoke(t)
    \/ \E t \in Callers : SyncInvokeResume(t)
    \/ \E task \in Tasks, o \in Outcomes : syncCollection(task, o)
    \/ \E task \in Tasks : WorkerDone(task)

Spec == Init /\ [][Next]_vars

\* a deployment whose sources come from a watched resource: the watcher
\* goroutine runs updateSources while one handler goroutine calls Sync,
\* GetStatus and GetLogs
WatchCallers == {1}

WatchNext ==
    \/ \E p \in Payloads : updateSources(p)
    \/ \E name \in {"crm", "ads"} : initDrivers(name)
    \/ \E t \in WatchCallers, id \in SourceIds : Sync(t, id)
    \/ \E t \in WatchCallers : SyncResolve(t)
    \/ \E t \in WatchCallers, c \in CollectionNames : SyncLock(t, c)
    \/ \E t \in WatchCallers, c \in CollectionNames : SyncLockError(t, c)
    \/ \E t \in WatchCallers : SyncInvoke(t)
    \/ \E t \in WatchCallers : SyncInvokeResume(t)
    \/ \E t \in WatchCallers : SyncInvokeReleased(t)
    \/ \E t \in WatchCallers, id \in SourceIds : GetStatus(t, id)
    \/ \E t \in WatchCallers, id \in SourceIds : GetLogs(t, id)
    \/ \E t \in WatchCallers, c \in CollectionNames : ReadCollection(t, c)
    \/ \E t \in WatchCallers, c \in CollectionNames : ReadCollectionError(t, c)
    \/ \E t \in WatchCallers : ReadReturn(t)
    \/ \E task \in Tasks, o \in Outcomes : syncCollection(task, o)
    \/ \E task \in Tasks : WorkerDone(task)
    \/ Close

WatchSpec == Init /\ [][WatchNext]_vars

\* the steps that go on with work already begun: everything but the arrival
\* of a new request. The Go scheduler runs every runnable goroutine, and the
\* drivers are taken to end their Sync.
Progress ==
    \/ \E t \in Callers : SyncResolve(t)
    \/ \E t \in Callers, c \in CollectionNames : SyncLock(t, c)
    \/ \E t \in Callers, c \in CollectionNames : SyncLockError(t, c)
    \/ \E t \in Callers : SyncInvoke(t)
    \/ \E t \in Callers : SyncInvokeResume(t)
    \/ \E task \in Tasks, o \in Outcomes : syncCollection(task, o)
    \/ \E task \in Tasks : WorkerDone(task)

LiveSpec == Init /\ [][Next]_vars /\ WF_vars(Progress)

\* the work of the pool's workers
TaskProgress ==
    \/ \E task \in Tasks, o \in Outcomes : syncCollection(task, o)
    \/ \E task \in Tasks : WorkerDone(task)

\* a deployment that is shut down: Close is called between two requests of
\* the handler goroutine, the tasks dispatched before it still in the pool;
\* the Go scheduler runs the workers, and the drivers end their Sync
CloseNext ==
    \/ \E t \in WatchCallers, id \in SourceIds : Sync(t, id)
    \/ \E t \in WatchCallers : SyncResolve(t)
    \/ \E t \in WatchCallers, c \in CollectionNames : SyncLock(t, c)
    \/ \E t \in WatchCallers, c \in CollectionNames : SyncLockError(t, c)
    \/ \E t \in WatchCallers : SyncInvoke(t)
    \/ \E t \in WatchCallers : SyncInvokeResume(t)
    \/ TaskProgress
    \/ (\A t \in WatchCallers : Free(t)) /\ Close

CloseSpec == Init /\ [][CloseNext]_vars /\ WF_vars(TaskProgress)

\* the goroutines that take the registry mutex, each statement of theirs that
\* touches it a step of its own: the watcher in initDrivers, a handler in
\* Sync, GetStatus and GetLogs, and the pool's workers
MutexNext ==
    \/ \E p \in Payloads : updateSources(p)
    \/ \E name \in {"crm", "ads"} : initDriversCreate(name)
    \/ initDriversLock
    \/ initDriversStore
    \/ \E t \in WatchCallers, op \in {"Sync", "GetStatus", "GetLogs"},
          id \in SourceIds : RLock(t, op, id)
    \/ \E t \in WatchCallers : LookupRUnlock(t)
    \/ \E t \in WatchCallers : SyncResolve(t)
    \/ \E t \in WatchCallers, c \in CollectionNames : SyncLock(t, c)
    \/ \E t \in WatchCallers, c \in CollectionNames : SyncLockError(t, c)
    \/ \E t \in WatchCallers : SyncInvoke(t)
    \/ \E t \in WatchCallers : SyncInvokeResume(t)
    \/ \E t \in WatchCallers, c \in CollectionNames : ReadCollection(t, c)
    \/ \E t \in WatchCallers, c \in CollectionNames : ReadCollectionError(t, c)
    \/ \E t \in WatchCallers : ReadReturn(t)
    \/ TaskProgress

MutexSpec == Init /\ [][MutexNext]_vars

\* the process from the call of NewService on
MonitorInit ==
    /\ driverConstructors = [t \in RegisteredTypes |-> "v1"]
    /\ factory = NoCreate
    /\ mutex = MutexFree
    /\ monitor = NoMonitor
    /\ formatted = NoFormat
    /\ sources = EmptyRegistry
    /\ closed = FALSE
    /\ released = FALSE
    /\ running = 0
    /\ tasks = EmptyBag
    /\ locks = {}
    /\ calls = [t \in Callers |-> IdleCall]
    /\ reload = IdleReload
    /\ dest \in DestinationScenarios
    /\ started = 0

\* the service NewService returned is in use
Serving == monitor.built = "service"

\* the steps of the monitoring goroutine
MonitorLoop ==
    \/ \E observed \in BOOLEAN : MonitorCheck(observed)
    \/ MonitorSample
    \/ MonitorWake

\* the monitoring goroutine reads s.closed and finds it set
MonitorObserve == closed /\ MonitorCheck(TRUE)

\* main builds the service, the handler goroutine calls Sync on it, the
\* monitoring goroutine samples the pool, the shutdown goroutine calls Close
MonitorNext ==
    \/ \E kind \in ConfigKinds, p \in Payloads : NewService(kind, p)
    \/ \E t \in WatchCallers, id \in SourceIds : Serving /\ Sync(t, id)
    \/ \E t \in WatchCallers : SyncResolve(t)
    \/ \E t \in WatchCallers, c \in CollectionNames : SyncLock(t, c)
    \/ \E t \in WatchCallers, c \in CollectionNames : SyncLockError(t, c)
    \/ \E t \in WatchCallers : SyncInvoke(t)
    \/ \E t \in WatchCallers : SyncInvokeResume(t)
    \/ \E t \in WatchCallers : SyncInvokeReleased(t)
    \/ TaskProgress
    \/ Serving /\ ~closed /\ Close
    \/ MonitorLoop

\* the Go scheduler runs the monitoring goroutine, and a write of s.closed
\* becomes visible to the loop's read after finitely many iterations
MonitorSpec ==
    MonitorInit /\ [][MonitorNext]_vars /\ WF_vars(MonitorLoop) /\ SF_vars(MonitorObserve)

\* Granularity on its own: a granularity and two instants, the service not
\* in use
FormatInit ==
    /\ driverConstructors = [t \in {} |-> ""]
    /\ factory = NoCreate
    /\ mutex = MutexFree
    /\ monitor = NoMonitor
    /\ \E g \in Granularities, t \in Instants, u \in Instants :
          formatted = [NoFormat EXCEPT !.g = g, !.t = t, !.u = u]
    /\ sources = EmptyRegistry
    /\ closed = FALSE
    /\ released = FALSE
    /\ running = 0
    /\ tasks = EmptyBag
    /\ locks = {}
    /\ calls = [t \in Callers |-> IdleCall]
    /\ reload = IdleReload
    /\ dest = [d \in DestinationIds |-> "missing"]
    /\ started = 0

FormatNext == CallFormat

FormatSpec == FormatInit /\ [][FormatNext]_vars

\* package drivers before any driver package has registered a constructor
\* (line 14), the service not in use
CreateInit ==
    /\ driverConstructors = [t \in {} |-> ""]
    /\ factory = NoCreate
    /\ mutex = MutexFree
    /\ monitor = NoMonitor
    /\ formatted = NoFormat
    /\ sources = EmptyRegistry
    /\ closed = FALSE
    /\ released = FALSE
    /\ running = 0
    /\ tasks = EmptyBag
    /\ locks = {}
    /\ calls = [t \in Callers |-> IdleCall]
    /\ reload = IdleReload
    /\ dest = [d \in DestinationIds |-> "missing"]
    /\ started = 0

CreateNext ==
    \/ \E t \in RegisteredTypes, f \in Constructors : RegisterDriverConstructor(t, f)
    \/ \E name \in {"crm", "ads"}, sourceConfig \in SourceConfigs :
          CallCreate(name, sourceConfig)

CreateSpec == CreateInit /\ [][CreateNext]_vars

\* ------------------------------------------------------------------ claims
Pairs == {[sourceId |-> s, collection |-> c] : s \in {"crm", "ads"}, c \in CollectionNames}

\* who holds the lock handle of a pair: a Sync call between Lock and Invoke's
\* return, or a task that has not called Unlock
LockHolders(pair) ==
    Cardinality({t \in Callers : calls[t].lock = pair})
      + TaskCount({task \in Tasks : task.lock = pair /\ task.unlocks = 0})

\* the tasks whose driver.Sync for the pair is in progress
Executions(pair) ==
    {task \in Tasks : /\ task.sourceId = pair.sourceId
                      /\ task.collection = pair.collection
                      /\ task.phase = "running"}

\* C1: for every (source, collection) pair at most one holder of its lock
\* exists, and at most one driver.Sync for the pair is in progress, whatever
\* the interleaving of the concurrent Sync calls
C1_OneHolderPerPair ==
    \A pair \in Pairs :
        /\ LockHolders(pair) <= 1
        /\ TaskCount(Executions(pair)) <= 1

\* two Sync("crm") calls overlap, each has dispatched the collection the other
\* has still to lock, and the tasks of the two collections run at the same time
C1_Witness ==
    \E t1, t2 \in Callers :
        /\ t1 # t2
        /\ calls[t1].sourceId = "crm" /\ calls[t1].pc = "loop"
        /\ calls[t1].submitted = {"contacts"} /\ calls[t1].todo = {"deals"}
        /\ calls[t2].sourceId = "crm" /\ calls[t2].pc = "loop"
        /\ calls[t2].submitted = {"deals"} /\ calls[t2].todo = {"contacts"}
        /\ \E x, y \in Tasks : /\ x.phase = "running" /\ y.phase = "running"
                               /\ x.identifier = <<"crm", "_", "contacts">>
                               /\ y.identifier = <<"crm", "_", "deals">>

\* C2: a task a worker executes has its lock released exactly once, by an
\* Unlock that comes after driver.Sync has ended (success, error or panic):
\* no Unlock while Sync runs, one when it has ended, and the worker leaves
\* the task only then
C2_UnlockOnceAfterSync ==
    [][\A task \in Tasks :
          /\ task.phase = "running" => task.unlocks = 0 /\ task.lock \in locks
          /\ task.phase = "unlocked" => task.unlocks = 1
          /\ tasks' = RemoveTask(tasks, task)
                => task.phase = "unlocked" /\ task.unlocks = 1]_vars

\* a task whose driver panicked has called Unlock once
C2_Witness ==
    \E task \in Tasks :
        task.phase = "unlocked" /\ task.outcome = "panic" /\ task.unlocks = 1
            /\ task.lock \notin locks

\* C3 as claimed: a submission made while every worker is busy returns with a
\* dispatch error recorded for the collection
C3_SaturationRejected ==
    [][\A t \in Callers :
          (calls[t].pc = "invoke" /\ ~released /\ running = PoolSize
              /\ calls'[t] # calls[t])
            => /\ calls'[t].pc \in {"loop", "done"}
               /\ calls[t].collection \in calls'[t].dispatchFailed
               /\ Len(calls'[t].multiErr) = Len(calls[t].multiErr) + 1]_vars

\* C4 as claimed: no Sync call waits while a dispatched driver.Sync is running
C4_SyncNeverWaits ==
    \A t \in Callers :
        ~(calls[t].pc = "blocked" /\ \E task \in Tasks : task.phase = "running")

\* C5: a call for an id that is no key of the registry returns NotFound at
\* once and changes nothing: no destination resolved, no lock, no task, no
\* Meta Storage read, the registry as it was
C5_NotFoundNoSideEffect ==
    [][\A t \in Callers :
          (started' = started + 1 /\ calls'[t] # calls[t]
              /\ calls'[t].sourceId \notin DOMAIN sources)
            => /\ calls'[t].pc = "done"
               /\ calls'[t].result = "NotFound"
               /\ calls'[t].resolved = {} /\ calls'[t].reads = {}
               /\ calls'[t].lock = NoLock /\ calls'[t].submitted = {}
               /\ calls'[t].lockFailed = {} /\ calls'[t].dispatchFailed = {}
               /\ calls'[t].out = NoMap
               /\ UNCHANGED <<mutex, monitor, formatted, driverConstructors, factory, sources, locks, tasks, running>>]_vars

\* GetLogs of "crm" has returned NotFound (the build of crm failed)
C5_Witness ==
    \E t \in Callers :
        /\ calls[t].op = "GetLogs" /\ calls[t].sourceId = "crm"
        /\ calls[t].pc = "done" /\ calls[t].result = "NotFound"
        /\ "crm" \notin DOMAIN sources

\* the destination ids of the call's Unit all resolve to not-found or not-ready
NoLiveDestination(c) ==
    \A d \in Range(c.unit.DestinationIds) : dest[d] # "ready"

\* C6: when no destination id of the source resolves to a ready storage, Sync
\* returns EmptyDestinations, has acquired no lock and has dispatched no task
C6_EmptyDestinations ==
    [][\A t \in Callers :
          (calls[t].pc = "resolve" /\ calls'[t] # calls[t]
              /\ NoLiveDestination(calls[t]))
            => /\ calls'[t].pc = "done"
               /\ calls'[t].result = "EmptyDestinations"
               /\ calls'[t].lock = NoLock /\ calls'[t].submitted = {}
               /\ calls'[t].lockFailed = {} /\ calls'[t].dispatchFailed = {}
               /\ UNCHANGED <<mutex, monitor, formatted, driverConstructors, factory, locks, tasks, running>>]_vars

\* Sync("crm") has returned EmptyDestinations: its one destination is not ready
C6_Witness ==
    \E t \in Callers :
        /\ calls[t].op = "Sync" /\ calls[t].sourceId = "crm"
        /\ calls[t].result = "EmptyDestinations"
        /\ calls[t].resolved = {"warehouse"} /\ dest["warehouse"] = "notready"

\* C7: when Sync has gone through the collections, the aggregate error has one
\* entry per collection whose lock or dispatch failed, every other collection
\* has a task dispatched, and none whose lock failed has one
C7_OneEntryPerFailure ==
    \A t \in Callers :
        (calls[t].op = "Sync" /\ calls[t].pc = "done"
            /\ calls[t].result \in {"nil", "multiErr"})
          => LET failed == calls[t].lockFailed \cup calls[t].dispatchFailed
                 all == DOMAIN calls[t].unit.DriverPerCollection
             IN /\ Len(calls[t].multiErr) = Cardinality(failed)
                /\ calls[t].lockFailed \cap calls[t].dispatchFailed = {}
                /\ calls[t].submitted = all \ failed
                /\ Cardinality(calls[t].submitted) = Cardinality(all) - Len(calls[t].multiErr)
                /\ (calls[t].result = "nil") = (failed = {})

\* Sync("crm"), two collections: the lock of one failed, the other is dispatched
C7_Witness ==
    \E t \in Callers :
        /\ calls[t].op = "Sync" /\ calls[t].sourceId = "crm" /\ calls[t].pc = "done"
        /\ Len(calls[t].multiErr) = 1
        /\ Cardinality(calls[t].lockFailed) = 1
        /\ Cardinality(calls[t].submitted) = 1

\* C8: the pool's count of busy workers stays the number of tasks in flight,
\* also past a panic; again and again every Sync call begun after the driver
\* of a task panicked has had its tasks dispatched and has returned, and the
\* tasks in flight have ended
C8_PanicKeepsPool ==
    /\ [](running = BagCardinality(tasks))
    /\ []<>(\A t \in Callers : calls[t].afterPanic => calls[t].pc = "done")
    /\ []<>(tasks = EmptyBag)

\* a Sync call begun after the driver of a task had panicked has
\* dispatched its task, returned nil, and the task has ended
C8_Witness ==
    \E t \in Callers :
        /\ calls[t].afterPanic /\ calls[t].pc = "done" /\ calls[t].result = "nil"
        /\ calls[t].submitted # {}
        /\ tasks = EmptyBag /\ running = 0

\* the sources of payload p that build
Built(p) ==
    {n \in DOMAIN parseFromBytes(p).configs :
        Create(n, parseFromBytes(p).configs[n], p).err = ""}

\* C9 as claimed: when a well-formed payload has been applied, the registry
\* holds exactly the sources of that payload that built, each with the Unit
\* built from that payload
C9_ReloadReplaces ==
    (reload.pc = "idle" /\ reload.applied # "")
      => /\ DOMAIN sources = Built(reload.applied)
         /\ \A n \in DOMAIN sources :
               \A c \in DOMAIN sources[n].DriverPerCollection :
                  sources[n].DriverPerCollection[c].build = reload.applied

\* the registry initDrivers leaves when it has gone through the payload
After ==
    InitDriversAll(reload.before, parseFromBytes(reload.payload).configs,
                   DOMAIN parseFromBytes(reload.payload).configs, reload.payload)

\* C10 as claimed: a lookup made while a reload is under way reads the
\* registry of before the reload or the one of after it
C10_LookupSeesSnapshot ==
    [][(started' = started + 1 /\ reload.pc = "init")
          => (sources = reload.before \/ sources = After)]_vars

\* C11: a reload payload that cannot be parsed changes nothing: the registry,
\* its source ids and every Unit, is as it was, and the watcher is back
\* outside updateSources, ready for the next payload, the service not closed
C11_MalformedKeepsRegistry ==
    [][\A p \in Payloads :
          (parseFromBytes(p).err /\ updateSources(p))
            => /\ sources' = sources
               /\ reload'.pc = "idle" /\ reload'.applied = reload.applied
               /\ closed' = closed /\ calls' = calls]_vars

\* a payload was delivered and none was applied: it was malformed, and the
\* registry NewService built is still there
C11_Witness ==
    /\ reload.pc = "idle" /\ reload.count = 1 /\ reload.applied = ""
    /\ DOMAIN sources = {"crm", "ads"}

\* C12 as claimed: when a payload has been applied, a source of the payload
\* is in the registry exactly when its drivers were created; one whose
\* drivers.Create failed is absent
C12_FailedSourceAbsent ==
    (reload.pc = "idle" /\ reload.applied # "")
      => LET configs == parseFromBytes(reload.applied).configs
         IN \A n \in DOMAIN configs :
               (n \in DOMAIN sources)
                  = (Create(n, configs[n], reload.applied).err = "")

\* the errors of Create's validation, lines 61, 72, 78 and 81
ValidationErrors ==
    {"name not configured", "failed to parse collections",
     "collections are empty", "destinations are empty"}

\* a configuration the claim calls invalid: an entry without a name, no
\* collection, or no destination
Invalid(sourceConfig) ==
    \/ \E i \in 1..Len(sourceConfig.Collections) : sourceConfig.Collections[i].name = ""
    \/ Len(sourceConfig.Collections) = 0
    \/ Len(sourceConfig.Destinations) = 0

\* C13 as claimed: Create fails with a validation error, returns no driver
\* and invokes no constructor for every invalid configuration, and succeeds
\* only for a valid one
C13_ValidationRejects ==
    factory.pc = "returned"
      => /\ Invalid(factory.config)
              => /\ factory.out.err \in ValidationErrors
                 /\ factory.out.drivers = NoDrivers
                 /\ factory.out.calls = 0
         /\ factory.out.err = "" => ~Invalid(factory.config)

\* the type Create resolves the constructor for
SourceType(name, sourceConfig) ==
    IF sourceConfig.Type = "" THEN name ELSE sourceConfig.Type

\* the configuration gets through lines 52-82 of Create
PassesValidation(sourceConfig) ==
    /\ NormalizeAll(sourceConfig.Collections).err = ""
    /\ Len(sourceConfig.Collections) > 0
    /\ Len(sourceConfig.Destinations) > 0

\* C14 as claimed: whenever no constructor is registered for the type of the
\* source, Create fails with UnknownSourceType, calls no constructor and
\* returns no driver; otherwise the drivers come from the constructor of the
\* latest registration for the type
C14_UnknownTypeAlways ==
    [][(factory.pc = "idle" /\ factory'.pc = "returned")
          => LET type == SourceType(factory'.name, factory'.config)
                 out == factory'.out
             IN /\ type \notin DOMAIN factory.registered
                     => /\ out.err = "Unknown source type"
                        /\ out.calls = 0 /\ out.drivers = NoDrivers
                /\ type \in DOMAIN factory.registered
                     => \A c \in DOMAIN out.drivers :
                           out.drivers[c].constructor = factory.registered[type]]_vars

\* C14: for a configuration that passes Create's validation, Create fails
\* with UnknownSourceType, calls no constructor and returns no driver when no
\* constructor is registered for the type of the source; when one is, every
\* driver comes from the constructor of the latest registration for the type
C14_UnknownTypeRejected ==
    [][(factory.pc = "idle" /\ factory'.pc = "returned")
          => LET type == SourceType(factory'.name, factory'.config)
                 out == factory'.out
             IN /\ (type \notin DOMAIN factory.registered
                       /\ PassesValidation(factory'.config))
                     => /\ out.err = "Unknown source type"
                        /\ out.calls = 0 /\ out.drivers = NoDrivers
                /\ type \notin DOMAIN factory.registered => out.err # ""
                /\ type \in DOMAIN factory.registered
                     => \A c \in DOMAIN out.drivers :
                           out.drivers[c].constructor = factory.registered[type]]_vars

\* constructors are registered for "firebase" and "crm", and Create of a valid
\* "mysql" source has failed with UnknownSourceType
C14_Witness ==
    /\ factory.pc = "returned" /\ factory.config.Type = "mysql"
    /\ PassesValidation(factory.config)
    /\ DOMAIN driverConstructors = {"firebase", "crm"}
    /\ factory.out.err = "Unknown source type" /\ factory.out.calls = 0

\* the collection names a configuration holds
ConfiguredNames(sourceConfig) ==
    {sourceConfig.Collections[i].name : i \in 1..Len(sourceConfig.Collections)}

\* the last entry of the configuration with the name c, normalized
LastNamed(sourceConfig, c) ==
    LET last == CHOOSE i \in 1..Len(sourceConfig.Collections) :
                    /\ sourceConfig.Collections[i].name = c
                    /\ \A j \in (i + 1)..Len(sourceConfig.Collections) :
                           sourceConfig.Collections[j].name # c
    IN NormalizeEntry(sourceConfig.Collections[last]).col

\* C15: a Create that succeeds has called the constructor once per configured
\* collection and returns a driver for exactly the configured names, each
\* built for its collection; when the constructor fails for a collection,
\* Create returns an error and no driver, and initDrivers registers nothing
\* for the source
C15_OnePerCollection ==
    [][(factory.pc = "idle" /\ factory'.pc = "returned")
          => LET name == factory'.name
                 sourceConfig == factory'.config
                 type == SourceType(name, sourceConfig)
                 out == factory'.out
             IN /\ out.err = ""
                     => /\ out.calls = Len(sourceConfig.Collections)
                        /\ DOMAIN out.drivers = ConfiguredNames(sourceConfig)
                        /\ \A c \in DOMAIN out.drivers :
                              /\ out.drivers[c].source = name
                              /\ out.drivers[c].sourceType = type
                              /\ out.drivers[c].collection = c
                              /\ out.drivers[c].collectionType
                                    = LastNamed(sourceConfig, c).Type
                /\ (/\ PassesValidation(sourceConfig)
                    /\ type \in DOMAIN driverConstructors
                    /\ \E i \in 1..Len(sourceConfig.Collections) :
                          ConstructorFails(type,
                              NormalizeEntry(sourceConfig.Collections[i]).col))
                     => /\ out.err = "error creating driver"
                        /\ out.drivers = NoDrivers
                        /\ InitDriversAll(EmptyRegistry,
                                          [n \in {name} |-> sourceConfig],
                                          {name}, "") = EmptyRegistry]_vars

\* Create of a source with two collections has returned two drivers
C15_Witness ==
    /\ factory.pc = "returned" /\ factory.out.err = ""
    /\ Len(factory.config.Collections) = 2
    /\ DOMAIN factory.out.drivers = {"contacts", "deals"}
    /\ factory.out.calls = 2

\* C16: GetStatus and GetLogs of a registered source return a map with one
\* entry per collection of the Unit, holding what Meta Storage returned for
\* the (source, collection); a failed read ends the call at once with the
\* error and no map; neither call takes a lock or submits a task
C16_ReadsAllOrNothing ==
    [][\A t \in Callers :
          (calls'[t] # calls[t] /\ calls'[t].op \in {"GetStatus", "GetLogs"}
              /\ calls'[t].result # "NotFound")
            => LET c == calls'[t]
                   all == DOMAIN c.unit.DriverPerCollection
               IN /\ UNCHANGED <<locks, tasks, running>>
                  /\ c.lock = NoLock /\ c.submitted = {} /\ c.lockFailed = {}
                  /\ c.dispatchFailed = {}
                  /\ c.pc = "done" => c.result \in {"ok", "MetaStorageError"}
                  /\ c.result = "ok"
                       => /\ DOMAIN c.out = all /\ c.reads = all
                          /\ \A col \in all :
                                c.out[col] = MetaValue(c.op, c.sourceId, col)
                  /\ c.result = "MetaStorageError"
                       => /\ c.pc = "done" /\ c.out = NoMap
                          /\ c.reads \subseteq all
                          /\ Cardinality(c.reads) = Cardinality(calls[t].reads) + 1]_vars

\* GetStatus("crm") has returned the statuses of its two collections
C16_Witness ==
    \E t \in Callers :
        /\ calls[t].op = "GetStatus" /\ calls[t].sourceId = "crm"
        /\ calls[t].pc = "done" /\ calls[t].result = "ok"
        /\ DOMAIN calls[t].out = {"contacts", "deals"}

\* C17: a Sync that found a live destination and had no lock and no dispatch
\* failure returns nil with every collection of its Unit dispatched; each
\* dispatch puts one task into the pool, with the identifier
\* sourceId_collection and the driver of the collection
C17_OneTaskPerCollection ==
    /\ [](\A t \in Callers :
            (calls[t].op = "Sync" /\ calls[t].pc = "done"
                /\ calls[t].result \in {"nil", "multiErr"}
                /\ calls[t].lockFailed = {} /\ calls[t].dispatchFailed = {})
              => /\ calls[t].result = "nil"
                 /\ calls[t].submitted = DOMAIN calls[t].unit.DriverPerCollection)
    /\ [][\A t \in Callers :
            (calls'[t].submitted # calls[t].submitted /\ calls'[t].submitted # {})
              => \E col \in calls'[t].submitted \ calls[t].submitted :
                    /\ calls'[t].submitted = calls[t].submitted \cup {col}
                    /\ \E x \in BagToSet(tasks') :
                          /\ tasks' = AddTask(tasks, x)
                          /\ x.sourceId = calls[t].sourceId /\ x.collection = col
                          /\ x.identifier = <<calls[t].sourceId, "_", col>>
                          /\ x.driver = calls[t].unit.DriverPerCollection[col]]_vars

\* Sync("crm") has returned nil and its two tasks, crm_contacts and crm_deals,
\* are in the pool
C17_Witness ==
    \E t \in Callers :
        /\ calls[t].op = "Sync" /\ calls[t].sourceId = "crm"
        /\ calls[t].pc = "done" /\ calls[t].result = "nil"
        /\ calls[t].submitted = {"contacts", "deals"}
        /\ {x.identifier : x \in Tasks}
              = {<<"crm", "_", "contacts">>, <<"crm", "_", "deals">>}
        /\ BagCardinality(tasks) = 2

\* the destination ids of the list that resolve to a ready storage, in order
ReadyStorages(ids) == SelectSeq(ids, LAMBDA d : dest[d] = "ready")

Dispatching(t) ==
    calls[t].op = "Sync" /\ calls[t].pc \in {"loop", "invoke", "blocked"}

\* C19 as claimed: a Sync begun after Close starts no task and records a
\* dispatch error for each of its collections
C19_DispatchErrorForEach ==
    [][\A t \in Callers :
          (closed /\ Dispatching(t) /\ calls'[t] # calls[t])
            => /\ calls'[t].submitted = {}
               /\ calls'[t].lockFailed = {}
               /\ calls'[t].pc = "done"
                    => calls'[t].dispatchFailed
                          = DOMAIN calls[t].unit.DriverPerCollection]_vars

\* C19: a Sync begun after Close starts no task and records an error for each
\* of its collections, a dispatch error for every collection whose lock it
\* got and a lock error for the others; Close and the time after it take no
\* task out of the pool but those that have ended and released their lock,
\* and the tasks in the pool do end
C19_NoSubmissionAfterClose ==
    /\ [][\A t \in Callers :
            (closed /\ Dispatching(t) /\ calls'[t] # calls[t])
              => /\ calls'[t].submitted = {}
                 /\ BagCardinality(tasks') <= BagCardinality(tasks)
                 /\ calls[t].pc \in {"invoke", "blocked"}
                      => /\ calls[t].collection \in calls'[t].dispatchFailed
                         /\ calls[t].collection \notin calls'[t].lockFailed
                 /\ calls'[t].pc = "done"
                      => /\ calls'[t].result = "multiErr"
                         /\ calls'[t].lockFailed \cup calls'[t].dispatchFailed
                               = DOMAIN calls[t].unit.DriverPerCollection
                         /\ Len(calls'[t].multiErr)
                               = Cardinality(DOMAIN calls[t].unit.DriverPerCollection)]_vars
    /\ [][closed' # closed => UNCHANGED <<tasks, locks, running>>]_vars
    /\ [][(closed' /\ tasks' # tasks)
            => \E x \in Tasks :
                  \/ /\ x.phase = "running" /\ x.lock \in locks
                     /\ \E o \in Outcomes :
                           tasks' = AddTask(RemoveTask(tasks, x),
                                            [x EXCEPT !.phase = "unlocked",
                                                      !.outcome = Ended(o),
                                                      !.unlocks = 1])
                     /\ x.lock \notin locks'
                  \/ /\ x.phase = "unlocked" /\ x.unlocks = 1
                     /\ tasks' = RemoveTask(tasks, x)]_vars
    /\ []<>(tasks = EmptyBag)

\* the pool is released with the task of "ads" in it; the task has ended and
\* released its lock since, and a Sync("crm") made after Close has returned
\* with a dispatch error for each of its two collections and no task
C19_Witness ==
    \E t \in Callers :
        /\ closed
        /\ calls[t].op = "Sync" /\ calls[t].sourceId = "crm" /\ calls[t].pc = "done"
        /\ calls[t].dispatchFailed = {"contacts", "deals"}
        /\ calls[t].submitted = {}
        /\ \E x \in Tasks : x.sourceId = "ads" /\ x.phase = "unlocked"
        /\ \A x \in Tasks : x.sourceId = "ads"

\* what the registry shows to its users: the source ids and, for each, the
\* collection names and the destination ids
View(registry) ==
    [n \in DOMAIN registry |->
        [collections |-> DOMAIN registry[n].DriverPerCollection,
         destinations |-> registry[n].DestinationIds]]

\* the registry NewService builds from the payload p
BuiltFrom(p) ==
    InitDriversAll(EmptyRegistry, parseFromBytes(p).configs,
                   DOMAIN parseFromBytes(p).configs, p)

\* C20: when the payload that was applied last (by NewService or by the
\* previous reload) has been applied once more, the registry shows the same
\* source ids, collection names and destination ids as before
C20_ReloadIdempotent ==
    [][(/\ reload.pc = "init" /\ reload'.pc = "idle"
        /\ \/ reload.applied = reload.payload
           \/ reload.applied = "" /\ reload.before = BuiltFrom(reload.payload))
          => View(sources') = View(reload.before)]_vars

\* payload B has been applied to the registry NewService built from B
C20_Witness ==
    /\ reload.pc = "idle" /\ reload.applied = "B"
    /\ sources = BuiltFrom("B")

\* -------------------------------------------------------------------- C21
\* C21: in every state in which no Sync call is in progress and no task is
\* queued or running in the pool, the monitor keeper holds no lock granted to
\* this service; a lock acquired for a collection whose pool submission
\* failed has been given back
C21_NoLockWhenQuiet ==
    ((\A t \in Callers : Free(t)) /\ tasks = EmptyBag) => locks = {}


\* -------------------------------------------------------------------- C22
\* what Sync returns, from the outcomes of its own steps: the lookup, the
\* destination resolution, the lock acquisitions and the pool submissions
SyncResult(c) ==
    IF c.unit = NoUnit THEN "NotFound"
    ELSE IF Len(c.destinationStorages) = 0 THEN "EmptyDestinations"
    ELSE IF c.lockFailed \cup c.dispatchFailed = {} THEN "nil"
    ELSE "multiErr"

\* the entries of the aggregate error, from the same outcomes
SyncErrors(c) ==
    {<<"lock", col>> : col \in c.lockFailed}
        \cup {<<"dispatch", col>> : col \in c.dispatchFailed}

\* a step of a pool worker: a task ends its driver's Sync or leaves the pool
WorkerStep ==
    /\ tasks' # tasks
    /\ BagCardinality(tasks') <= BagCardinality(tasks)

\* C22: the value Sync returns is determined by the dispatch-time outcomes
\* (lookup, destination resolution, lock acquisition, pool submission),
\* whatever the dispatched drivers do later (succeed, return an error,
\* panic); no step of a worker, a panic included, changes what a caller of
\* Sync has got or will get
C22_ResultFromDispatchOnly ==
    /\ [](\A t \in Callers :
            (calls[t].op = "Sync" /\ calls[t].pc = "done") =>
               /\ calls[t].result = SyncResult(calls[t])
               /\ Range(calls[t].multiErr) = SyncErrors(calls[t])
               /\ Len(calls[t].multiErr) = Cardinality(SyncErrors(calls[t])))
    /\ [][WorkerStep => calls' = calls]_vars

\* Sync has returned nil and the driver of a task it dispatched has panicked
C22_Witness ==
    \E t \in Callers, task \in Tasks :
        /\ calls[t].op = "Sync"
        /\ calls[t].pc = "done"
        /\ calls[t].result = "nil"
        /\ task.sourceId = calls[t].sourceId
        /\ task.collection \in calls[t].submitted
        /\ task.outcome = "panic"


\* -------------------------------------------------------------------- C23
\* the positions at which a goroutine calls a collaborator, or is inside the
\* call: destination resolution, lock acquisition, pool submission (waiting
\* for a worker included), Meta Storage reads
CollaboratorCall(t) ==
    calls[t].pc \in {"resolve", "loop", "invoke", "blocked", "read"}

\* C23: no goroutine holds the registry mutex, shared or exclusive, while it
\* calls a collaborator: a handler holds the read lock only between RLock and
\* its read of the registry, the watcher holds the write lock only between
\* Lock and its store, and drivers.Create, destination resolution, lock
\* acquisition, pool submission and Meta Storage reads run with it released
C23_NoMutexDuringCollaborators ==
    /\ \A t \in Callers : CollaboratorCall(t) => t \notin mutex.readers
    /\ reload.pc \in {"init", "created"} => ~mutex.writer
    /\ mutex.readers \subseteq {t \in Callers : calls[t].pc = "rlocked"}
    /\ mutex.writer => reload.pc = "locked"

\* the watcher holds the mutex for its store while a handler is inside
\* pool.Invoke or a Meta Storage read: the reload was not held up by it
C23_Witness ==
    /\ mutex.writer
    /\ \E t \in Callers : calls[t].pc \in {"invoke", "read"}


Handled(c) ==
    c.todo \cup c.submitted \cup c.lockFailed \cup c.dispatchFailed
        \cup (IF c.pc \in {"invoke", "blocked"} THEN {c.collection} ELSE {})

\* a Sync call that has found its source and live destinations
InLoop(c) ==
    /\ c.op = "Sync"
    /\ \/ c.pc \in {"loop", "invoke", "blocked"}
       \/ c.pc = "done" /\ c.result \in {"nil", "multiErr"}

\* C25: a Sync call works on the Unit it looked up at its start, whatever a
\* reload does to the registry meanwhile: the Unit it holds does not change
\* while the call runs, the collections it works on are exactly those of
\* that Unit, every task it dispatches carries the driver of that Unit and
\* the storages the call resolved, and a task already dispatched keeps its
\* driver and storages; a reload changes no call and no task
C25_SyncUsesUnitLookedUp ==
    /\ [](\A t \in Callers :
            InLoop(calls[t]) =>
               Handled(calls[t]) = DOMAIN calls[t].unit.DriverPerCollection)
    /\ [][\A t \in Callers :
            (calls[t].op = "Sync" /\ ~Free(t)) => calls'[t].unit = calls[t].unit]_vars
    /\ [][\A x \in BagToSet(tasks') \ Tasks :
            IF x.phase = "running"
            THEN \E t \in Callers :
                    /\ calls[t].pc \in {"invoke", "blocked"}
                    /\ x.sourceId = calls[t].sourceId
                    /\ x.collection = calls[t].collection
                    /\ x.driver = calls[t].unit.DriverPerCollection[x.collection]
                    /\ x.destinations = calls[t].destinationStorages
            ELSE \E y \in Tasks :
                    /\ y.identifier = x.identifier
                    /\ y.driver = x.driver
                    /\ y.destinations = x.destinations]_vars
    /\ [][sources' # sources => (tasks' = tasks /\ calls' = calls)]_vars

\* a reload has replaced the source of a Sync call that is inside pool.Invoke
\* for a collection the newer Unit does not have
C25_Witness ==
    \E t \in Callers :
        /\ calls[t].op = "Sync"
        /\ calls[t].pc = "invoke"
        /\ calls[t].sourceId \in DOMAIN sources
        /\ sources[calls[t].sourceId] # calls[t].unit
        /\ calls[t].collection
              \notin DOMAIN sources[calls[t].sourceId].DriverPerCollection


\* -------------------------------------------------------------------- C26
\* the type a raw entry is to end up with: its name for a bare name and for a
\* structured entry with no type, the configured type otherwise
DefaultedType(e) ==
    IF e.kind = "string" \/ e.type = "" THEN e.name ELSE e.type

\* the last raw entry of the configuration with the name c
LastEntry(sourceConfig, c) ==
    LET last == CHOOSE i \in 1..Len(sourceConfig.Collections) :
                    /\ sourceConfig.Collections[i].name = c
                    /\ \A j \in (i + 1)..Len(sourceConfig.Collections) :
                           sourceConfig.Collections[j].name # c
    IN sourceConfig.Collections[last]

\* C26: Create works with defaulted values: the source type is the
\* configured one, or the source's name when none is configured, and it is
\* this type the constructor is looked up under; the constructor receives,
\* for a bare name N, the collection with name N and type N, and for a
\* structured entry its name and its type, the name standing in for a type
\* that is missing or empty
C26_NormalizationDefaults ==
    [][(factory.pc = "idle" /\ factory'.pc = "returned")
          => LET name == factory'.name
                 sourceConfig == factory'.config
                 out == factory'.out
             IN /\ out.type = IF sourceConfig.Type = "" THEN name
                              ELSE sourceConfig.Type
                /\ out.err = "Unknown source type"
                     => out.type \notin DOMAIN driverConstructors
                /\ out.err = ""
                     => /\ out.type \in DOMAIN driverConstructors
                        /\ \A c \in DOMAIN out.drivers :
                              /\ out.drivers[c].sourceType = out.type
                              /\ out.drivers[c].constructor
                                    = driverConstructors[out.type]
                              /\ out.drivers[c].collection
                                    = LastEntry(sourceConfig, c).name
                              /\ out.drivers[c].collectionType
                                    = DefaultedType(LastEntry(sourceConfig, c))]_vars

\* Create has built, for a source with no type of its own, the drivers of a
\* bare name and of a structured entry without a type
C26_Witness ==
    /\ factory.pc = "returned"
    /\ factory.out.err = ""
    /\ factory.config.Type = ""
    /\ factory.out.type = factory.name
    /\ factory.config.Collections = <<StrEntry("contacts"), MapEntry("deals", "")>>
    /\ factory.out.drivers["deals"].collectionType = "deals"


\* -------------------------------------------------------------------- C27
\* two instants lie in the same interval of the granularity: Lower and Upper
\* delimit the same interval for both
SameInterval(g, t, u) ==
    /\ Lower(g, t) = Lower(g, u)
    /\ Upper(g, t) = Upper(g, u)

\* C27: for DAY, MONTH and YEAR, Format gives two instants the same string
\* exactly when they lie in the same day, month or year, the interval Lower
\* and Upper delimit; for DAY the string is the year, the month and the day
\* of the month of the instant
C27_FormatIdentifiesInterval ==
    (formatted.pc = "returned" /\ formatted.g \in {"DAY", "MONTH", "YEAR"})
       => /\ (formatted.ft = formatted.fu)
                <=> SameInterval(formatted.g, formatted.t, formatted.u)
          /\ formatted.g = "DAY"
               => formatted.ft = Digits4(formatted.t.year) \o <<"-">>
                                    \o Digits2(formatted.t.month) \o <<"-">>
                                    \o Digits2(formatted.t.day)

====
